---- MODULE Spec2Model ----
(***************************************************************************)
(* Model of TidePlotter.py: the serial reader thread (SerialReaderThread), *)
(* the CSV data file (read_data_from_file / write_data_to_file), the frame *)
(* parser (parse_message) and the GUI thread of MainWindow with its three  *)
(* buttons and the two queued signals.                                     *)
(*                                                                         *)
(* Text is modelled as a sequence of one-character strings.  A Python      *)
(* number is a record [kind, milli]: its value is milli/1000 and kind      *)
(* tells int from float.  A datetime is [s, us]; its '%Y-%m-%d %H:%M:%S'   *)
(* text keeps s only.                                                      *)
(***************************************************************************)
EXTENDS Integers, Sequences, FiniteSets, TLC

\* ---------------------------------------------------------------- bounds
MaxThreads == 2      \* reader threads (sessions) created in one run
MaxFrames  == 2      \* lines the serial device delivers in one run
MaxClock   == 0      \* instants the wall clock passes through in one run
WindowCap  == 1      \* stands for the 20000 of update_plot (line 253)
MaxTokens  == 5      \* key-value tokens behind the head of a generated line

ThreadIds == 1..MaxThreads

\* the k-th instant of the run: seconds and microseconds
Instant(k) == [s |-> (k + 1) \div 2, us |-> 7 * ((k + 1) % 2)]

\* ------------------------------------------------------------- text, numbers
Letters ==
  {"A","B","C","D","E","F","G","H","I","J","K","L","M","N","O","P","Q","R",
   "S","T","U","V","W","X","Y","Z","a","b","c","d","e","f","g","h","i","j",
   "k","l","m","n","o","p","q","r","s","t","u","v","w","x","y","z"}

Digits == {"0","1","2","3","4","5","6","7","8","9"}

DigitVal(c) ==
  CASE c = "0" -> 0 [] c = "1" -> 1 [] c = "2" -> 2 [] c = "3" -> 3
    [] c = "4" -> 4 [] c = "5" -> 5 [] c = "6" -> 6 [] c = "7" -> 7
    [] c = "8" -> 8 [] c = "9" -> 9

\* int(value): an int object
PyInt(n) == [kind |-> "int", milli |-> 1000 * n]

\* int(value) / 1000.0: a float object
MilliToUnit(n) == [kind |-> "float", milli |-> n]

\* float(text) of the text written for a number
PyFloat(x) == [kind |-> "float", milli |-> x.milli]

\* ------------------------------------------------------------ parse_message
field_map ==
  [k \in {"V", "s", "S", "C", "U", "r", "n"} |->
     CASE k = "V" -> "battery_voltage"
       [] k = "s" -> "solar_voltage"
       [] k = "S" -> "sensor_id"
       [] k = "C" -> "msg_count"
       [] k = "U" -> "ultrasonic_range"
       [] k = "r" -> "rssi"
       [] k = "n" -> "signal_to_noise_ratio"]

\* first position >= i of msg that holds no digit
RECURSIVE DigitsEnd(_, _)
DigitsEnd(msg, i) ==
  IF i <= Len(msg) /\ msg[i] \in Digits THEN DigitsEnd(msg, i + 1) ELSE i

\* decimal value of msg[i..j]
RECURSIVE DecimalValue(_, _, _)
DecimalValue(msg, i, j) ==
  IF j < i THEN 0 ELSE 10 * DecimalValue(msg, i, j - 1) + DigitVal(msg[j])

\* re.findall(r'([A-Za-z])(-?\d+)', message) from position i on
RECURSIVE FindAll(_, _)
FindAll(msg, i) ==
  IF i > Len(msg) THEN <<>>
  ELSE IF msg[i] \in Letters
       THEN LET neg == i + 1 <= Len(msg) /\ msg[i + 1] = "-"
                ds  == IF neg THEN i + 2 ELSE i + 1
                de  == DigitsEnd(msg, ds)
                mag == DecimalValue(msg, ds, de - 1)
            IN  IF de > ds
                THEN <<[key |-> msg[i], value |-> IF neg THEN 0 - mag ELSE mag]>>
                       \o FindAll(msg, de)
                ELSE FindAll(msg, i + 1)
       ELSE FindAll(msg, i + 1)

\* data[field_map[key]] = ... for one match
StoreField(data, m) ==
  IF m.key \in DOMAIN field_map
  THEN LET f == field_map[m.key]
           v == IF m.key = "V" \/ m.key = "s"
                THEN MilliToUnit(m.value) ELSE PyInt(m.value)
       IN  [k \in (DOMAIN data) \cup {f} |-> IF k = f THEN v ELSE data[k]]
  ELSE data

RECURSIVE FoldMatches(_, _, _)
FoldMatches(data, matches, i) ==
  IF i > Len(matches) THEN data
  ELSE FoldMatches(StoreField(data, matches[i]), matches, i + 1)

EmptyDict == [k \in {} |-> 0]

parse_message(message) == FoldMatches(EmptyDict, FindAll(message, 1), 1)

\* the pre-filter of run(): the frame is skipped when this holds
PreFilterRejects(decoded_line) ==
  \/ Len(decoded_line) < 10
  \/ decoded_line[1] # "S"
  \/ Len(decoded_line) > 40

RequiredFields == {"battery_voltage", "solar_voltage", "ultrasonic_range", "rssi"}

\* "battery is not None or solar is not None or ...": one field is enough
AnyPresent(parsed_data) == RequiredFields \cap DOMAIN parsed_data # {}

\* "if battery and solar and ultrasonic and rssi": a value of 0 is falsy
AllTruthy(parsed_data) ==
  /\ RequiredFields \subseteq DOMAIN parsed_data
  /\ \A f \in RequiredFields : parsed_data[f].milli # 0

\* "battery is not None and solar is not None and ..."
AllPresent(parsed_data) == RequiredFields \subseteq DOMAIN parsed_data

\* ------------------------------------------------------------ the data file
\* the file at data_file: exists is os.path.exists(data_file), rows its lines
NoFile == [exists |-> FALSE, rows |-> <<>>]

\* a cell of a row is a record with a field t: "str", "time" or "num"
StrCell(v) == [t |-> "str", v |-> v]

HeaderCells ==
  <<StrCell("Timestamp"), StrCell("Battery Voltage (V)"),
    StrCell("Solar Voltage (V)"), StrCell("Ultrasonic Range"), StrCell("RSSI")>>

\* a row of the file; id is the arrival number of the frame it was written for
\* (0 for the header), kept to tell rows apart, not part of the text
HeaderRow == [cells |-> HeaderCells, id |-> 0]

\* timestamp.strftime('%Y-%m-%d %H:%M:%S')
Strftime(ts) == [t |-> "time", s |-> ts.s]

\* datetime.strptime(text, '%Y-%m-%d %H:%M:%S')
Strptime(txt) == [s |-> txt.s, us |-> 0]

\* csv text of a number: str(x), which keeps int and float apart
NumText(x) == [t |-> "num", kind |-> x.kind, milli |-> x.milli]

\* the row run() hands to write_data_to_file for measurement m
RowOf(m) ==
  [cells |-> <<Strftime(m.ts), NumText(m.battery), NumText(m.solar),
               NumText(m.ultrasonic), NumText(m.rssi)>>,
   id |-> m.id]

\* a row cut short by a write that failed half way
TornRow(r) == [cells |-> SubSeq(r.cells, 1, 1), id |-> r.id]

IsTimeText(c) == c.t = "time"
IsNumText(c)  == c.t = "num"

\* the list comprehension of read_data_from_file raises on this row
Undecodable(r) ==
  \/ Len(r.cells) < 5
  \/ ~IsTimeText(r.cells[1])
  \/ \E i \in 2..5 : ~IsNumText(r.cells[i])

DecodeRow(r) ==
  [ts |-> Strptime(r.cells[1]), battery |-> PyFloat(r.cells[2]),
   solar |-> PyFloat(r.cells[3]), ultrasonic |-> PyFloat(r.cells[4]),
   rssi |-> PyFloat(r.cells[5]), id |-> r.id]

\* the file has a row, after the first, that does not decode
Corrupt(file) ==
  /\ file.exists
  /\ \E i \in 2..Len(file.rows) : Undecodable(file.rows[i])

read_data_from_file(file) ==
  IF ~file.exists THEN <<>>                 \* os.path.exists is False
  ELSE IF Len(file.rows) = 0 THEN <<>>      \* next(reader) raises, caught
  ELSE IF Corrupt(file) THEN <<>>           \* a row raises, caught
  ELSE [i \in 1..(Len(file.rows) - 1) |-> DecodeRow(file.rows[i + 1])]

\* the lines one call of write_data_to_file puts in its buffer
WriteBuffer(file_exists, data) ==
  (IF file_exists THEN <<>> ELSE <<HeaderRow>>) \o data

\* the file after lines are added at its end; text added behind a torn
\* last line continues that line
AppendLines(rows, lines) ==
  IF Len(rows) > 0 /\ Len(rows[Len(rows)].cells) < 5 /\ Len(lines) > 0
  THEN rows \o Tail(lines)
  ELSE rows \o lines

\* self.data[:20000]
FirstN(s, n) == IF Len(s) <= n THEN s ELSE SubSeq(s, 1, n)

\* self.data[-20000:]
LastN(s, n) == IF Len(s) <= n THEN s ELSE SubSeq(s, Len(s) - n + 1, Len(s))

\* ------------------------------------------------------------ serial input
\* decoded, stripped lines the device may send
\* "S1,V4106,U841,s6835,r-58"
Frame1 ==
  <<"S","1",",","V","4","1","0","6",",","U","8","4","1",",","s","6","8","3","5",",","r","-","5","8">>

\* "S1,V4106"
Frame2 ==
  <<"S","1",",","V","4","1","0","6">>

\* "S1,V4106,C55,U841"
Frame3 ==
  <<"S","1",",","V","4","1","0","6",",","C","5","5",",","U","8","4","1">>

Frames == {Frame1, Frame2, Frame3}

\* ------------------------------------------------------------------ state
VARIABLES
  threads,               \* the SerialReaderThread objects, by creation number
  serial_reader_thread,  \* MainWindow.serial_reader_thread
  start_button,          \* start_button.isEnabled()
  stop_button,           \* stop_button.isEnabled()
  gui_pc,                \* "idle": in the event loop; "waiting": inside the
                         \* wait() of stop_reading; "waiting_ended": inside a
                         \* wait() called on a thread that had ended
  sigq,                  \* queued signal deliveries to the GUI thread
  message_display,       \* the number of lines appended to the QTextEdit
  self_data,             \* MainWindow.data
  plot_data,             \* the rows update_plot last drew
  data_file,             \* the file at data_file
  now,                   \* the instant the last datetime.now() returned
  frames_read,           \* lines read from the device so far
  app_up                 \* FALSE once the process has aborted

vars == <<threads, serial_reader_thread, start_button, stop_button, gui_pc,
          sigq, message_display, self_data, plot_data, data_file, now,
          frames_read, app_up>>

\* a thread object that start_reading has not created yet
NoThread ==
  [pc |-> "new", running |-> FALSE, ser |-> "none", data |-> <<>>,
   parsed_data |-> EmptyDict, file_exists |-> FALSE, fh |-> "none"]

\* SerialReaderThread.__init__ followed by start()
NewThread == [NoThread EXCEPT !.pc = "start", !.running = TRUE]

\* thread object th once run() is over: its locals are gone, the Serial
\* object is as run() left it
Ended(th, pc) ==
  [NoThread EXCEPT !.pc = pc, !.running = th.running, !.ser = th.ser]

\* QThread.isFinished(): run() has returned or was left by an exception
Finished(t) == threads[t].pc \in {"done", "failed"}

\* a thread is executing run()
Active(t) == threads[t].pc \notin {"new", "done", "failed"}

\* a wait() that does not block
WaitReturnsAtOnce(t) == TRUE

\* a wait() that watches for the normal end of run() only
WaitReturnsOnExit(t) == threads[t].pc = "done"

\* QThread.wait() returns
WaitReturns(t) == Finished(t)

\* data_updated declared as pyqtSignal(object)
data_updated_as_object == "object"

\* the argument type of the data_updated signal
data_updated_type == "list"

\* what a queued emission carries: a signal declared with list converts the
\* argument to a QVariantList when emitted, one declared with object would
\* carry the reference to the list of thread t
Marshal(sigtype, t, lst) ==
  IF sigtype = "list" THEN [ref |-> 0, copy |-> lst]
                      ELSE [ref |-> t, copy |-> <<>>]

\* the list a marshalled argument denotes
View(p) == IF p.ref = 0 THEN p.copy ELSE threads[p.ref].data

Init ==
  /\ threads = [t \in ThreadIds |-> IF t = 1 THEN NewThread ELSE NoThread]
  /\ serial_reader_thread = 1
  /\ start_button = FALSE
  /\ stop_button = TRUE
  /\ gui_pc = "idle"
  /\ sigq = <<>>
  /\ message_display = 0
  /\ self_data = Marshal("list", 0, <<>>)
  /\ plot_data = <<>>
  /\ data_file = NoFile
  /\ now = 0
  /\ frames_read = 0
  /\ app_up = TRUE

\* -------------------------------------------------- SerialReaderThread.run
\* an exception leaves run() of thread t and PyQt lets the thread end (the
\* behaviour before PyQt 5.5); the traceback goes to stderr, no signal is sent
ThreadDies(t) ==
  /\ threads' = [threads EXCEPT ![t] = Ended(@, "failed")]
  /\ UNCHANGED <<serial_reader_thread, start_button, stop_button, gui_pc, sigq,
                 message_display, self_data, plot_data, data_file, now,
                 frames_read, app_up>>

\* an exception leaves Python code called by Qt and PyQt aborts the process
\* (the behaviour from PyQt 5.5 on): the traceback is printed, the objects of
\* the process are gone and unflushed text is lost; the file stays
ProcessAborts ==
  /\ app_up' = FALSE
  /\ threads' = [t \in ThreadIds |-> NoThread]
  /\ serial_reader_thread' = 1
  /\ start_button' = FALSE
  /\ stop_button' = FALSE
  /\ gui_pc' = "idle"
  /\ sigq' = <<>>
  /\ message_display' = 0
  /\ self_data' = Marshal("list", 0, <<>>)
  /\ plot_data' = <<>>
  /\ now' = 0
  /\ frames_read' = 0
  /\ UNCHANGED data_file

\* serial.Serial(self.serial_port, self.baudrate, timeout=1)
OpenSerial(t) ==
  /\ app_up /\ threads[t].pc = "start"
  /\ threads' = [threads EXCEPT ![t].pc = "load", ![t].ser = "open"]
  /\ UNCHANGED <<serial_reader_thread, start_button, stop_button, gui_pc, sigq,
                 message_display, self_data, plot_data, data_file, now,
                 frames_read, app_up>>

\* serial.Serial raises SerialException
OpenSerialFails(t) ==
  /\ app_up /\ threads[t].pc = "start"
  /\ \/ ThreadDies(t)
     \/ ProcessAborts

\* data = read_data_from_file(data_file)
LoadData(t) ==
  /\ app_up /\ threads[t].pc = "load"
  /\ threads' = [threads EXCEPT ![t].pc = "loop",
                                ![t].data = read_data_from_file(data_file)]
  /\ UNCHANGED <<serial_reader_thread, start_button, stop_button, gui_pc, sigq,
                 message_display, self_data, plot_data, data_file, now,
                 frames_read, app_up>>

\* while self.running: ... ; ser.close()
LoopTest(t) ==
  /\ app_up /\ threads[t].pc = "loop"
  /\ threads' = IF threads[t].running
                THEN [threads EXCEPT ![t].pc = "poll"]
                ELSE [threads EXCEPT
                        ![t] = Ended([@ EXCEPT !.ser = "closed"], "done")]
  /\ UNCHANGED <<serial_reader_thread, start_button, stop_button, gui_pc, sigq,
                 message_display, self_data, plot_data, data_file, now,
                 frames_read, app_up>>

\* ser.in_waiting is 0
NoInput(t) ==
  /\ app_up /\ threads[t].pc = "poll"
  /\ threads' = [threads EXCEPT ![t].pc = "loop"]
  /\ UNCHANGED <<serial_reader_thread, start_button, stop_button, gui_pc, sigq,
                 message_display, self_data, plot_data, data_file, now,
                 frames_read, app_up>>

\* ser.in_waiting or ser.readline() raises: the link is lost
ReadError(t) ==
  /\ app_up /\ threads[t].pc = "poll"
  /\ \/ ThreadDies(t)
     \/ ProcessAborts

\* datetime.now(): the clock has not gone back since the last call
ClockReads == now..MaxClock

\* the message_received emission of line 115, made at instant k
RawFrameEvent(t, k, decoded_line) ==
  [kind |-> "message_received", from |-> t,
   arg |-> [time |-> Strftime(Instant(k)), text |-> decoded_line]]

\* lines 112-124 with the emit of line 115 moved behind the test of line 116:
\* a line that fails the test is not shown
ReadLineFilterFirst(t, decoded_line) ==
  /\ app_up /\ threads[t].pc = "poll"
  /\ frames_read < MaxFrames
  /\ frames_read' = frames_read + 1
  /\ \E k \in ClockReads :
       /\ now' = k
       /\ sigq' = IF PreFilterRejects(decoded_line) THEN sigq
                  ELSE Append(sigq, RawFrameEvent(t, k, decoded_line))
  /\ LET parsed_data == parse_message(decoded_line)
     IN  threads' =
           IF PreFilterRejects(decoded_line) THEN [threads EXCEPT ![t].pc = "loop"]
           ELSE IF AllPresent(parsed_data)
                THEN [threads EXCEPT ![t].pc = "accept",
                                     ![t].parsed_data = parsed_data]
                ELSE [threads EXCEPT ![t].pc = "loop"]
  /\ UNCHANGED <<serial_reader_thread, start_button, stop_button, gui_pc,
                 message_display, self_data, plot_data, data_file, app_up>>

\* lines 112-124: a line is read, shown, filtered and parsed
ReadLine(t, decoded_line) ==
  /\ app_up /\ threads[t].pc = "poll"
  /\ frames_read < MaxFrames
  /\ frames_read' = frames_read + 1
  /\ \E k \in ClockReads :
       /\ now' = k
       /\ sigq' = Append(sigq, RawFrameEvent(t, k, decoded_line))
  /\ LET parsed_data == parse_message(decoded_line)
     IN  threads' =
           IF PreFilterRejects(decoded_line) THEN [threads EXCEPT ![t].pc = "loop"]
           ELSE IF AllPresent(parsed_data)
                THEN [threads EXCEPT ![t].pc = "accept",
                                     ![t].parsed_data = parsed_data]
                ELSE [threads EXCEPT ![t].pc = "loop"]
  /\ UNCHANGED <<serial_reader_thread, start_button, stop_button, gui_pc,
                 message_display, self_data, plot_data, data_file, app_up>>

\* the tuple of line 126 for the frame with arrival number id
Measurement(ts, parsed_data, id) ==
  [ts |-> ts, battery |-> parsed_data["battery_voltage"],
   solar |-> parsed_data["solar_voltage"],
   ultrasonic |-> parsed_data["ultrasonic_range"],
   rssi |-> parsed_data["rssi"], id |-> id]

\* line 126 left out: the list is not extended
PushNothing(data, m) == data

\* data.insert(0, m)
PushFront(data, m) == <<m>> \o data

\* data.append(m)
Push(data, m) == Append(data, m)

\* lines 125-126: timestamp = datetime.now(); data.append(...)
Accept(t) ==
  /\ app_up /\ threads[t].pc = "accept"
  /\ \E k \in ClockReads :
       /\ now' = k
       /\ threads' = [threads EXCEPT
            ![t].pc = "isfile",
            ![t].data = Push(@, Measurement(Instant(k), threads[t].parsed_data,
                                            frames_read))]
  /\ UNCHANGED <<serial_reader_thread, start_button, stop_button, gui_pc, sigq,
                 message_display, self_data, plot_data, data_file,
                 frames_read, app_up>>

\* ------------------------------------------------------ write_data_to_file
\* file_exists = os.path.isfile(file_path)
IsFile(t) ==
  /\ app_up /\ threads[t].pc = "isfile"
  /\ threads' = [threads EXCEPT ![t].pc = "open",
                                ![t].file_exists = data_file.exists]
  /\ UNCHANGED <<serial_reader_thread, start_button, stop_button, gui_pc, sigq,
                 message_display, self_data, plot_data, data_file, now,
                 frames_read, app_up>>

\* open(file_path, 'a'), which creates the file when it is absent
OpenFile(t) ==
  /\ app_up /\ threads[t].pc = "open"
  /\ threads' = [threads EXCEPT ![t].pc = "write", ![t].fh = "linked"]
  /\ data_file' = [data_file EXCEPT !.exists = TRUE]
  /\ UNCHANGED <<serial_reader_thread, start_button, stop_button, gui_pc, sigq,
                 message_display, self_data, plot_data, now,
                 frames_read, app_up>>

\* open raises OSError; "except Exception: pass"
OpenFileFails(t) ==
  /\ app_up /\ threads[t].pc = "open"
  /\ threads' = [threads EXCEPT ![t].pc = "emit"]
  /\ UNCHANGED <<serial_reader_thread, start_button, stop_button, gui_pc, sigq,
                 message_display, self_data, plot_data, data_file, now,
                 frames_read, app_up>>

\* the row of line 127, built from the tuple just appended to data
CurrentRow(t) == RowOf(threads[t].data[Len(threads[t].data)])

\* the rows after the buffered lines reach the file the handle is open on;
\* a handle whose file was removed writes to no path
Written(rows, fh, lines) == IF fh = "linked" THEN AppendLines(rows, lines) ELSE rows

\* the writerow calls and the close at the end of the with block
WriteRows(t) ==
  /\ app_up /\ threads[t].pc = "write"
  /\ threads' = [threads EXCEPT ![t].pc = "emit", ![t].fh = "none"]
  /\ data_file' = [data_file EXCEPT !.rows =
        Written(@, threads[t].fh,
                WriteBuffer(threads[t].file_exists, <<CurrentRow(t)>>))]
  /\ UNCHANGED <<serial_reader_thread, start_button, stop_button, gui_pc, sigq,
                 message_display, self_data, plot_data, now,
                 frames_read, app_up>>

\* the flush raises OSError with nothing or part of the text written;
\* "except Exception: pass"
WriteRowsFails(t) ==
  /\ app_up /\ threads[t].pc = "write"
  /\ threads' = [threads EXCEPT ![t].pc = "emit", ![t].fh = "none"]
  /\ \E torn \in BOOLEAN :
       data_file' = [data_file EXCEPT !.rows =
          IF torn
          THEN Written(@, threads[t].fh,
                       WriteBuffer(threads[t].file_exists, <<TornRow(CurrentRow(t))>>))
          ELSE @]
  /\ UNCHANGED <<serial_reader_thread, start_button, stop_button, gui_pc, sigq,
                 message_display, self_data, plot_data, now,
                 frames_read, app_up>>

\* the data_updated emission of line 128
SnapshotEvent(t) ==
  [kind |-> "data_updated", from |-> t,
   arg |-> Marshal(data_updated_type, t, threads[t].data)]

\* self.data_updated.emit(data)
Emit(t) ==
  /\ app_up /\ threads[t].pc = "emit"
  /\ threads' = [threads EXCEPT ![t].pc = "loop"]
  /\ sigq' = Append(sigq, SnapshotEvent(t))
  /\ UNCHANGED <<serial_reader_thread, start_button, stop_button, gui_pc,
                 message_display, self_data, plot_data, data_file, now,
                 frames_read, app_up>>

\* ------------------------------------------------------------- MainWindow
\* the GUI thread is in its event loop and can run a handler
GuiReady == app_up /\ gui_pc = "idle"

\* the thread object start_reading creates next
NextThread == CHOOSE t \in ThreadIds :
                 threads[t].pc = "new" /\ \A u \in ThreadIds : u < t => threads[u].pc # "new"

\* start_reading, run by a click on the Start button
start_reading ==
  /\ GuiReady /\ start_button
  /\ \E t \in ThreadIds : threads[t].pc = "new"
  /\ threads' = [threads EXCEPT ![NextThread] = NewThread]
  /\ serial_reader_thread' = NextThread
  /\ start_button' = FALSE
  /\ stop_button' = TRUE
  /\ UNCHANGED <<gui_pc, sigq, message_display, self_data, plot_data,
                 data_file, now, frames_read, app_up>>

\* stop_reading up to the wait() of SerialReaderThread.stop
stop_reading_call ==
  /\ GuiReady /\ stop_button
  /\ threads' = [threads EXCEPT ![serial_reader_thread].running = FALSE]
  /\ gui_pc' = IF Active(serial_reader_thread) THEN "waiting" ELSE "waiting_ended"
  /\ UNCHANGED <<serial_reader_thread, start_button, stop_button, sigq,
                 message_display, self_data, plot_data, data_file, now,
                 frames_read, app_up>>

\* wait() returns and stop_reading sets the buttons
stop_reading_return ==
  /\ app_up /\ gui_pc \in {"waiting", "waiting_ended"}
  /\ WaitReturns(serial_reader_thread)
  /\ gui_pc' = "idle"
  /\ start_button' = TRUE
  /\ stop_button' = FALSE
  /\ UNCHANGED <<threads, serial_reader_thread, sigq, message_display,
                 self_data, plot_data, data_file, now, frames_read, app_up>>

\* the Delete Data button is enabled
delete_button == TRUE

\* some thread holds the file open
FileOpen == \E t \in ThreadIds : threads[t].fh = "linked"

\* a delete_data whose test of os.path.exists is inverted: nothing is removed
delete_data_keeps ==
  /\ GuiReady /\ delete_button
  /\ UNCHANGED vars

\* delete_data: os.remove(data_file) when the file exists; a handle open on
\* the removed file stays open on no path
delete_data ==
  /\ GuiReady /\ delete_button
  /\ data_file' = NoFile
  /\ threads' = [t \in ThreadIds |->
                   IF data_file.exists /\ threads[t].fh = "linked"
                   THEN [threads[t] EXCEPT !.fh = "orphan"] ELSE threads[t]]
  /\ UNCHANGED <<serial_reader_thread, start_button, stop_button, gui_pc, sigq,
                 message_display, self_data, plot_data, now, frames_read, app_up>>

\* delete_data on win32 while the file is open: os.remove raises
\* PermissionError, which leaves the slot
delete_data_denied ==
  /\ GuiReady /\ delete_button
  /\ data_file.exists /\ FileOpen
  /\ \/ UNCHANGED vars
     \/ ProcessAborts

\* display_message, run for a queued message_received
display_message ==
  /\ GuiReady
  /\ sigq # <<>> /\ Head(sigq).kind = "message_received"
  /\ message_display' = message_display + 1
  /\ sigq' = Tail(sigq)
  /\ UNCHANGED <<threads, serial_reader_thread, start_button, stop_button,
                 gui_pc, self_data, plot_data, data_file, now, frames_read, app_up>>

\* update_plot: nothing is drawn for an empty list, else the last rows
update_plot(data, drawn) == IF data = <<>> THEN drawn ELSE LastN(data, WindowCap)

\* update_plot_data, run for a queued data_updated
update_plot_data ==
  /\ GuiReady
  /\ sigq # <<>> /\ Head(sigq).kind = "data_updated"
  /\ self_data' = Head(sigq).arg
  /\ plot_data' = update_plot(View(Head(sigq).arg), plot_data)
  /\ sigq' = Tail(sigq)
  /\ UNCHANGED <<threads, serial_reader_thread, start_button, stop_button,
                 gui_pc, message_display, data_file, now, frames_read, app_up>>

ThreadStep(t) ==
  \/ OpenSerial(t) \/ OpenSerialFails(t) \/ LoadData(t) \/ LoopTest(t)
  \/ NoInput(t) \/ ReadError(t) \/ \E f \in Frames : ReadLine(t, f)
  \/ Accept(t) \/ IsFile(t) \/ OpenFile(t) \/ OpenFileFails(t)
  \/ WriteRows(t) \/ WriteRowsFails(t) \/ Emit(t)

Next ==
  \/ \E t \in ThreadIds : ThreadStep(t)
  \/ start_reading \/ stop_reading_call \/ stop_reading_return
  \/ delete_data \/ delete_data_denied
  \/ display_message \/ update_plot_data

Spec == Init /\ [][Next]_vars

\* --------------------------------------- a start with a file from before
\* the file an earlier run of the program left: the header and the row of
\* one measurement, taken from Frame1 a second before this run
StoredFile ==
  [exists |-> TRUE,
   rows |-> <<HeaderRow,
              RowOf(Measurement([s |-> -1, us |-> 7], parse_message(Frame1), -1))>>]

\* the state after construction when data_file exists
ReplayInit ==
  /\ threads = [t \in ThreadIds |-> IF t = 1 THEN NewThread ELSE NoThread]
  /\ serial_reader_thread = 1
  /\ start_button = FALSE
  /\ stop_button = TRUE
  /\ gui_pc = "idle"
  /\ sigq = <<>>
  /\ message_display = 0
  /\ self_data = Marshal("list", 0, <<>>)
  /\ plot_data = <<>>
  /\ data_file = StoredFile
  /\ now = 0
  /\ frames_read = 0
  /\ app_up = TRUE

ReplaySpec == ReplayInit /\ [][Next]_vars

\* ------------------------------------------------- the parser on many lines
\* lines built as the device builds them: a head and comma-led tokens
Heads == {<<"S","1">>, <<"T","1">>}

Tokens ==
  {<<",","V","4","1","0","6">>, <<",","V","0">>, <<",","s","6","8","3","5">>,
   <<",","U","8","4","1">>, <<",","r","-","5","8">>, <<",","X","9">>,
   <<",","r">>}

RECURSIVE Concat(_)
Concat(seqs) == IF seqs = <<>> THEN <<>> ELSE Head(seqs) \o Concat(Tail(seqs))

TokenFrames ==
  {h \o Concat(b) : h \in Heads,
                    b \in UNION {[1..k -> Tokens] : k \in 0..MaxTokens}}

\* lines at the limits of the length test of line 116
\* "S1V1s1U1r1" (10), "SV1s1U1r1" (9), the empty line, and Frame1 made 40
\* and 41 long by ",n12" tokens
EdgeFrames ==
  {<<"S","1","V","1","s","1","U","1","r","1">>,
   <<"S","V","1","s","1","U","1","r","1">>,
   <<>>,
   Frame1 \o <<",","n","1","2",",","n","1","2",",","n","1","2",",","n","1","2">>,
   Frame1 \o <<",","n","1","2",",","n","1","2",",","n","1","2",",","n","1","2","3">>}

TestFrames == TokenFrames \cup EdgeFrames \cup Frames

\* thread 1 has opened the port, loaded no file and entered the loop
ParserInit ==
  /\ threads = [t \in ThreadIds |->
                  IF t = 1 THEN [NewThread EXCEPT !.pc = "poll", !.ser = "open"]
                           ELSE NoThread]
  /\ serial_reader_thread = 1
  /\ start_button = FALSE
  /\ stop_button = TRUE
  /\ gui_pc = "idle"
  /\ sigq = <<>>
  /\ message_display = 0
  /\ self_data = Marshal("list", 0, <<>>)
  /\ plot_data = <<>>
  /\ data_file = NoFile
  /\ now = 0
  /\ frames_read = 0
  /\ app_up = TRUE

\* lines 112-126 for one line of the device
ParserNext ==
  \/ threads[1].pc = "poll" /\ \E f \in TestFrames : ReadLine(1, f)
  \/ Accept(1)

ParserSpec == ParserInit /\ [][ParserNext]_vars

\* ------------------------------------------------------------- properties
\* no thread is executing run()
Idle == \A t \in ThreadIds : ~Active(t)

\* the lists the reader threads hold
ThreadData == [t \in ThreadIds |-> threads[t].data]

\* the list each queued data_updated delivery denotes
QueuedViews ==
  [i \in DOMAIN sigq |->
     IF sigq[i].kind = "data_updated" THEN View(sigq[i].arg) ELSE <<>>]

\* a condition was made known to the GUI: an event of that kind is queued
Reported(what) == \E i \in DOMAIN sigq : sigq[i].kind = what

\* the arrival numbers in s grow from left to right
InArrivalOrder(s) ==
  \A i, j \in DOMAIN s : (i < j /\ s[i].id # 0 /\ s[j].id # 0) => s[i].id < s[j].id

IsPrefix(s, u) == Len(s) <= Len(u) /\ SubSeq(u, 1, Len(s)) = s

\* C1: the data file is removed only while no reader thread is running, so
\* never between the steps of an append in flight.
C1_DeleteOnlyWhenIdle ==
  [][(data_file.exists /\ ~data_file'.exists) => Idle]_vars

\* C2: at most one reader thread is executing run() at any time, and so at
\* most one thread is inside write_data_to_file.
C2_AtMostOneReadLoop ==
  /\ Cardinality({t \in ThreadIds : Active(t)}) <= 1
  /\ Cardinality({t \in ThreadIds :
                    threads[t].pc \in {"isfile", "open", "write"}}) <= 1

\* a second session runs after the first one was stopped
C2_SecondSessionRunning ==
  /\ threads[1].pc = "done"
  /\ threads[2].pc = "write"

\* C3: once a read error has ended the thread the GUI holds, the process is
\* still up and either a link-lost event is on its way or the Start button
\* is enabled again: the service is not left shown as running.
C3_LinkLostSurfaced ==
  \A t \in ThreadIds :
    (t = serial_reader_thread /\ threads[t].pc = "failed"
       /\ threads[t].ser = "open" /\ gui_pc = "idle")
    => /\ app_up
       /\ Reported("link_lost") \/ start_button

\* C4: when the write for an accepted frame raises, the failure is reported.
C4_WriteFailureReported ==
  [][(\E t \in ThreadIds : OpenFileFails(t) \/ WriteRowsFails(t))
       => Reported("write_failed")']_vars

\* C5: loading a file with an undecodable row gives something else than
\* loading an absent file does, or reports the failure.
C5_CorruptLoadDistinct ==
  [][\A t \in ThreadIds :
       (threads[t].pc = "load" /\ threads'[t].pc = "loop" /\ Corrupt(data_file))
       => \/ threads'[t].data # read_data_from_file(NoFile)
          \/ Reported("load_failed")']_vars

\* C6: once the thread that was running when stop_reading was called has
\* ended, it has closed its serial port.
C6_StopClosesStream ==
  (gui_pc = "waiting" /\ Finished(serial_reader_thread))
    => threads[serial_reader_thread].ser # "open"

\* C7: a stop_reading that finds no thread running leaves the service idle,
\* the file, the lists and the plot as they were, raises nothing, and its
\* wait() returns.
C7_StopWhenIdleIsNoOp ==
  [][(gui_pc # gui_pc' /\ "waiting_ended" \in {gui_pc, gui_pc'})
       => /\ Idle /\ Idle'
          /\ data_file' = data_file
          /\ ThreadData' = ThreadData
          /\ self_data' = self_data
          /\ plot_data' = plot_data
          /\ sigq' = sigq
          /\ app_up'
          /\ WaitReturns(serial_reader_thread)'
    ]_vars

\* stop_reading was called with no thread running
C7_StoppedWhileIdle == app_up /\ gui_pc = "waiting_ended"

C9_SnapshotStable ==
  [][app_up' =>
       /\ View(self_data)' # View(self_data)
          => (sigq # <<>> /\ sigq' = Tail(sigq) /\ Head(sigq).kind = "data_updated")
       /\ \/ QueuedViews' = QueuedViews
          \/ QueuedViews # <<>> /\ QueuedViews' = Tail(QueuedViews)
          \/ IsPrefix(QueuedViews, QueuedViews') /\ Len(QueuedViews') = Len(QueuedViews) + 1
    ]_vars

\* the GUI holds a list while the running thread has appended beyond it
C9_ProducerAhead ==
  /\ View(self_data) # <<>>
  /\ \E t \in ThreadIds :
       Active(t) /\ Len(threads[t].data) > Len(View(self_data))

\* C10: rows and entries are in frame-arrival order in the file and in every
\* list; a step leaves the rows of the file alone, adds rows at the end, or
\* removes the file.
C10_ArrivalOrder ==
  [][/\ InArrivalOrder(data_file.rows)'
     /\ \A t \in ThreadIds : InArrivalOrder(threads[t].data)'
     /\ \A i \in DOMAIN sigq' : InArrivalOrder(QueuedViews[i])'
     /\ InArrivalOrder(View(self_data))'
     /\ \/ IsPrefix(data_file.rows, data_file'.rows)
        \/ ~data_file'.exists
    ]_vars

\* two frames accepted in one session are in the file and in the GUI's list
C10_TwoInOrder ==
  /\ Len(data_file.rows) >= 3
  /\ ~Corrupt(data_file)
  /\ Len(View(self_data)) >= 2
  /\ \E t \in ThreadIds : threads[t].pc = "loop" /\ Len(threads[t].data) >= 2
                           /\ threads[t].data[1].id = 1

\* entry m was built by line 126 from a frame (its range is the int of line
\* 91), not decoded from a row of the file (the float of line 50)
FromFrame(m) == m.ultrasonic.kind = "int"

\* the file holds the complete row written for entry m
InStore(m) ==
  \E i \in DOMAIN data_file.rows :
    data_file.rows[i].id = m.id /\ Len(data_file.rows[i].cells) = 5

\* entry m is in the list the GUI holds or in one queued for it
Published(m) ==
  \/ \E j \in DOMAIN View(self_data) : View(self_data)[j] = m
  \/ \E i \in DOMAIN sigq : \E j \in DOMAIN QueuedViews[i] : QueuedViews[i][j] = m

\* C11: when a stop ends run(), every measurement the thread appended to its
\* list for a frame of this session is also in the file and was published:
\* no frame is left with only some of its three effects.
C11_NoPartialFrameAtStop ==
  [][\A t \in ThreadIds :
       (threads[t].pc = "loop" /\ threads'[t].pc = "done")
       => \A i \in DOMAIN threads[t].data :
            FromFrame(threads[t].data[i])
            => InStore(threads[t].data[i]) /\ Published(threads[t].data[i])
    ]_vars

\* C12: a delete_data that returns leaves no file, and read_data_from_file
\* then gives the empty list; a thread that loads while the file is absent
\* begins with an empty list.
C12_DeleteRemovesAll ==
  /\ ~ENABLED (delete_data /\ (data_file.exists \/ read_data_from_file(data_file) # <<>>)')
  /\ \A t \in ThreadIds :
       ~ENABLED (LoadData(t) /\ ~data_file.exists /\ threads'[t].data # <<>>)

\* Delete Data has removed a file that held a measurement: the running
\* thread had loaded an entry from it, and loading now gives the empty list
C12_DeletedStoreWithEntries ==
  /\ ~data_file.exists
  /\ read_data_from_file(data_file) = <<>>
  /\ \E t \in ThreadIds :
       /\ Active(t)
       /\ \E i \in DOMAIN threads[t].data : ~FromFrame(threads[t].data[i])

\* a == b for two Python numbers: an int and a float of one value are equal
NumEq(a, b) == a.milli = b.milli

\* two entries with the same timestamp and the same four field values
SameEntry(a, b) ==
  /\ a.ts = b.ts
  /\ NumEq(a.battery, b.battery) /\ NumEq(a.solar, b.solar)
  /\ NumEq(a.ultrasonic, b.ultrasonic) /\ NumEq(a.rssi, b.rssi)

\* the file is the header followed by the complete rows written for the
\* entries of list m, in order, and nothing else
HoldsExactly(file, m) ==
  /\ file.exists
  /\ Len(file.rows) = Len(m) + 1
  /\ file.rows[1] = HeaderRow
  /\ \A i \in DOMAIN m : file.rows[i + 1] = RowOf(m[i])

\* C13: when the file holds exactly the rows appended for the measurements a
\* thread accepted, starting from no file, read_data_from_file returns those
\* measurements: as many, in the same order, each with the same timestamp and
\* field values.
C13_RoundTrip ==
  \A t \in ThreadIds :
    (/\ threads[t].pc \in {"emit", "loop", "poll"}
     /\ threads[t].data # <<>>
     /\ \A i \in DOMAIN threads[t].data : FromFrame(threads[t].data[i])
     /\ HoldsExactly(data_file, threads[t].data))
    => LET loaded == read_data_from_file(data_file) IN
       /\ Len(loaded) = Len(threads[t].data)
       /\ \A i \in DOMAIN loaded : /\ loaded[i].id = threads[t].data[i].id
                                   /\ SameEntry(loaded[i], threads[t].data[i])

\* position i of line f starts a token: a letter, an optional sign, a digit
TokenStart(f, i) ==
  /\ f[i] \in Letters
  /\ LET d == IF i + 1 <= Len(f) /\ f[i + 1] = "-" THEN i + 2 ELSE i + 1
     IN  d <= Len(f) /\ f[d] \in Digits

\* the signed number of the token that starts at position i
TokenValue(f, i) ==
  LET neg == f[i + 1] = "-"
      d   == IF neg THEN i + 2 ELSE i + 1
      mag == DecimalValue(f, d, DigitsEnd(f, d) - 1)
  IN  IF neg THEN 0 - mag ELSE mag

\* where the tokens of letter c start in line f
Occurrences(f, c) == {i \in DOMAIN f : f[i] = c /\ TokenStart(f, i)}

\* the number of the last token of letter c
LastValue(f, c) ==
  LET last == CHOOSE i \in Occurrences(f, c) : \A j \in Occurrences(f, c) : j <= i
  IN  TokenValue(f, last)

\* a line the claim says is accepted
WellFormed(f) ==
  /\ Len(f) >= 10 /\ Len(f) <= 40
  /\ f[1] = "S"
  /\ \A c \in {"V", "s", "U", "r"} : Occurrences(f, c) # {}

\* C14: a line read is accepted exactly when it is 10 to 40 long, starts with
\* S and has a token for each of V, s, U and r; the measurement built from it
\* has the number of the last token of each letter, V and s as thousandths
\* (float), U and r as they are (int), whatever other letters the line has.
C14_AcceptedIffWellFormed ==
  [][\A t \in ThreadIds :
       /\ (threads[t].pc = "poll" /\ frames_read' = frames_read + 1)
          => LET f == sigq'[Len(sigq')].arg.text IN
             /\ threads'[t].pc = "accept" <=> WellFormed(f)
             /\ threads'[t].pc # "accept" => threads'[t].pc = "loop"
             /\ threads'[t].pc = "accept" =>
                  LET d == threads'[t].parsed_data IN
                  /\ d["battery_voltage"] = [kind |-> "float", milli |-> LastValue(f, "V")]
                  /\ d["solar_voltage"] = [kind |-> "float", milli |-> LastValue(f, "s")]
                  /\ d["ultrasonic_range"] = [kind |-> "int", milli |-> 1000 * LastValue(f, "U")]
                  /\ d["rssi"] = [kind |-> "int", milli |-> 1000 * LastValue(f, "r")]
       /\ (threads[t].pc = "accept" /\ threads'[t].pc = "isfile")
          => LET d == threads[t].parsed_data
                 m == threads'[t].data[Len(threads'[t].data)] IN
             /\ Len(threads'[t].data) = Len(threads[t].data) + 1
             /\ m.battery = d["battery_voltage"] /\ m.solar = d["solar_voltage"]
             /\ m.ultrasonic = d["ultrasonic_range"] /\ m.rssi = d["rssi"]
    ]_vars

\* a line with two V tokens, the last of them V0, was accepted and its
\* measurement has battery 0
C14_ZeroAccepted ==
  /\ threads[1].pc = "isfile"
  /\ threads[1].data[Len(threads[1].data)].battery.milli = 0
  /\ Cardinality(Occurrences(sigq[Len(sigq)].arg.text, "V")) = 2

\* the message_received deliveries among the first n of the queue
RECURSIVE RawCount(_, _)
RawCount(q, n) ==
  IF n = 0 THEN 0
  ELSE RawCount(q, n - 1) + (IF q[n].kind = "message_received" THEN 1 ELSE 0)

\* the message_received events emitted so far: shown or still queued
RawEmitted == message_display + RawCount(sigq, Len(sigq))

\* C15: while the process is up, as many message_received events were emitted
\* as lines were read, accepted or not; the event of the n-th line read is
\* ahead of every data_updated delivery that holds the measurement of that
\* line and was emitted before the measurement was put in a list or in the
\* file; the file holds the header and measurement rows only.
C15_RawEventFirst ==
  app_up =>
    /\ RawEmitted = frames_read
    /\ \A j \in DOMAIN sigq : \A i \in DOMAIN QueuedViews[j] :
         QueuedViews[j][i].id <= message_display + RawCount(sigq, j - 1)
    /\ \A t \in ThreadIds : \A i \in DOMAIN threads[t].data :
         threads[t].data[i].id <= RawEmitted
    /\ \A i \in DOMAIN data_file.rows :
         /\ data_file.rows[i].id <= RawEmitted
         /\ \/ data_file.rows[i] = HeaderRow
            \/ /\ IsTimeText(data_file.rows[i].cells[1])
               /\ \A c \in 2..Len(data_file.rows[i].cells) :
                    IsNumText(data_file.rows[i].cells[c])

\* two lines were read, one rejected and one accepted; both events and the
\* snapshot of the accepted one are queued
C15_RejectedAndAcceptedShown ==
  /\ frames_read = 2
  /\ RawCount(sigq, Len(sigq)) = 2
  /\ \E j \in DOMAIN sigq : sigq[j].kind = "data_updated"
  /\ \E t \in ThreadIds : threads[t].pc = "loop" /\ Len(threads[t].data) = 1

\* C16: reading a line that is not well formed leaves the file, every list,
\* the list and the plot of the GUI as they were, queues nothing but the
\* message_received event of the line, raises nothing, and leaves the thread
\* at the head of its loop.
C16_RejectedFrameNoEffect ==
  [][\A t \in ThreadIds :
       (/\ threads[t].pc = "poll" /\ frames_read' = frames_read + 1
        /\ ~WellFormed(sigq'[Len(sigq')].arg.text))
       => /\ data_file' = data_file
          /\ ThreadData' = ThreadData
          /\ self_data' = self_data /\ plot_data' = plot_data
          /\ Len(sigq') = Len(sigq) + 1 /\ IsPrefix(sigq, sigq')
          /\ sigq'[Len(sigq')].kind = "message_received"
          /\ app_up'
          /\ threads'[t] = [threads[t] EXCEPT !.pc = "loop"]
    ]_vars

\* the first line read was rejected and the loop has gone on to read and
\* accept the second
C16_LoopWentOn ==
  /\ frames_read = 2
  /\ ~data_file.exists
  /\ \E t \in ThreadIds : threads[t].pc = "accept" /\ threads[t].data = <<>>
  /\ \A u \in ThreadIds : threads[u].pc \notin {"done", "failed"}

\* thread t is between accepting a line (line 124) and the end of line 128
InFlight(t) == threads[t].pc \in {"accept", "isfile", "open", "write", "emit"}

\* the measurement of the line in flight is in the list of thread t
Pushed(t) == \E i \in DOMAIN threads[t].data : threads[t].data[i].id = frames_read

\* a list the GUI holds or will be handed has the measurement of the line
\* in flight
SnapshotOut ==
  \/ \E i \in DOMAIN View(self_data) : View(self_data)[i].id = frames_read
  \/ \E j \in DOMAIN sigq : \E i \in DOMAIN QueuedViews[j] :
       QueuedViews[j][i].id = frames_read

\* the file has a row for the line in flight
RowOut == \E i \in DOMAIN data_file.rows : data_file.rows[i].id = frames_read

\* C17 as claimed: the measurement of the line in flight is in the list only
\* once write_data_to_file is over, and is in no snapshot before that.
C17_AppendThenPush ==
  \A t \in ThreadIds :
    InFlight(t) =>
      /\ Pushed(t) => threads[t].pc = "emit"
      /\ ~SnapshotOut

\* C17 as amended: the measurement is put in the list first, the file is
\* written next and the snapshot is emitted last: while the write is to come
\* or under way the list has the measurement, no row is in the file before
\* the write and no snapshot has it before the write is over.
C17_PushThenAppend ==
  \A t \in ThreadIds :
    InFlight(t) =>
      /\ threads[t].pc # "accept" <=> Pushed(t)
      /\ RowOut => threads[t].pc = "emit"
      /\ ~SnapshotOut

\* the measurement is in the list, its row is not yet in the file and no
\* snapshot has it
C17_PushedNotYetWritten ==
  \E t \in ThreadIds :
    /\ threads[t].pc = "isfile"
    /\ Pushed(t) /\ ~RowOut /\ ~SnapshotOut

\* C18: whenever the file exists and has a row, its first row is the header
\* and no later row is, so the row read_data_from_file skips is never the
\* row of a measurement.
C18_HeaderFirstAndOnce ==
  (data_file.exists /\ Len(data_file.rows) > 0)
    => /\ data_file.rows[1] = HeaderRow
       /\ \A i \in 2..Len(data_file.rows) : data_file.rows[i] # HeaderRow

\* C19: the load at the start of run() gives the thread every measurement
\* of the file before a line is read, and when there are any the GUI holds
\* them or a snapshot with them is on its way, with no line accepted yet;
\* after that the list of a running thread changes only by appending the
\* measurement of an accepted line.
C19_HistorySeenAtStart ==
  [][\A t \in ThreadIds :
       /\ (threads[t].pc = "load" /\ threads'[t].pc = "loop")
          => /\ threads'[t].data = read_data_from_file(data_file)
             /\ frames_read' = frames_read
             /\ threads'[t].data # <<>>
                => \/ View(self_data)' = threads'[t].data
                   \/ \E j \in DOMAIN sigq' :
                        /\ sigq'[j].kind = "data_updated"
                        /\ QueuedViews'[j] = threads'[t].data
       /\ (threads[t].pc \notin {"new", "start", "load"} /\ Active(t)')
          => \/ threads'[t].data = threads[t].data
             \/ /\ threads[t].pc = "accept"
                /\ Len(threads'[t].data) = Len(threads[t].data) + 1
                /\ IsPrefix(threads[t].data, threads'[t].data)
                /\ threads'[t].data[Len(threads'[t].data)].id = frames_read
    ]_vars

\* C20: an entry a thread built from a line and the entry the complete row
\* written for that line decodes to have the same timestamp and the same
\* four values.
C20_LiveEqualsReplayed ==
  \A t \in ThreadIds : \A i \in DOMAIN threads[t].data :
    \A j \in DOMAIN data_file.rows :
      (/\ FromFrame(threads[t].data[i])
       /\ data_file.rows[j].id = threads[t].data[i].id
       /\ ~Undecodable(data_file.rows[j]))
      => SameEntry(DecodeRow(data_file.rows[j]), threads[t].data[i])
====
